---------------------------- MODULE Spec2Model ----------------------------
(***************************************************************************)
(* Model of the two Datadog provisioning scripts                           *)
(*   scripts/create-datadog-monitors.py   (five monitors, one POST each)   *)
(*   scripts/create-datadog-dashboard.py  (one dashboard, one POST)        *)
(* One process runs one script.  The module-level code reads the           *)
(* environment and builds BASE_URL and headers; __main__ checks the two    *)
(* credentials and then calls create_all_monitors() or create_dashboard(). *)
(* Every requests.post call is answered by the environment: an HTTP        *)
(* response (status code, body text, id of the JSON body) or a transport   *)
(* fault (requests raises).                                                *)
(***************************************************************************)
EXTENDS Integers, Sequences, FiniteSets

VARIABLES
    script,            \* which script this process runs: "monitors" | "dashboard"
    DD_API_KEY,        \* os.getenv('DD_API_KEY')
    DD_APP_KEY,        \* os.getenv('DD_APP_KEY')
    DD_SITE,           \* os.getenv('DD_SITE', 'datadoghq.com')
    BASE_URL,          \* f"https://api.{DD_SITE}"
    headers,           \* the module-level headers dict
    monitors,          \* the module-level list of monitor definitions
    dashboard_config,  \* the module-level dashboard definition
    pc,                \* "main" | "create_all_monitors" | "create_dashboard"
                       \* | "exit0" | "exit1" | "traceback"
    i,                 \* 1-based position of the for loop in monitors
    created_monitors,  \* the local list of create_all_monitors
    returned,          \* {} until create_all_monitors returns, then {its list}
    dashboard_id,      \* {} until create_dashboard returns, then {its value}
    printed,           \* standard output of this process, line by line
    calls,             \* create_monitor / create_dashboard calls of this process
    run,               \* number of the current run of the script (1, 2, ...)
    wire               \* every POST issued, over all runs, with its outcome

vars == <<script, DD_API_KEY, DD_APP_KEY, DD_SITE, BASE_URL, headers, monitors,
          dashboard_config, pc, i, created_monitors, returned, dashboard_id,
          printed, calls, run, wire>>

config == <<DD_API_KEY, DD_APP_KEY, DD_SITE, BASE_URL, headers, monitors,
            dashboard_config>>

-----------------------------------------------------------------------------
(* Bounds of the model *)

\* ids 1..MaxId are the non-zero integer ids a 200 response may carry
MaxId == 1

\* the dashboard script is run at most MaxRuns times in a row
MaxRuns == 3

-----------------------------------------------------------------------------
(* Python values: None, int and str, with Python's truth test *)

PyNone == [t |-> "NoneType", n |-> 0, s |-> ""]

PyInt(k) == [t |-> "int", n |-> k, s |-> ""]

PyStr(x) == [t |-> "str", n |-> 0, s |-> x]

\* bool(v): None, 0 and '' are false
Truthy(v) ==
    CASE v.t = "int" -> v.n # 0
      [] v.t = "str" -> v.s # ""
      [] OTHER -> FALSE

\* os.getenv(name, default) on an environment entry (PyNone when unset)
getenv(entry, default) == IF entry = PyNone THEN default ELSE entry

-----------------------------------------------------------------------------
(* Module-level configuration *)

DefaultSite == PyStr("datadoghq.com")

\* values the environment may hold for DD_API_KEY and DD_APP_KEY
KeyEntries == {PyNone, PyStr(""), PyStr("k3y")}

\* values the environment may hold for DD_SITE
SiteEntries == {PyNone, PyStr("datadoghq.eu")}

\* f"https://api.{DD_SITE}"
MakeBaseUrl(site) == <<"https://api.", site.s>>

MakeHeaders(api_key, app_key) ==
    [ContentType |-> PyStr("application/json"),
     DDAPIKEY |-> api_key,
     DDAPPLICATIONKEY |-> app_key]

Monitor(name, query, tags, critical, warning) ==
    [name |-> name, type |-> "metric alert", query |-> query, tags |-> tags,
     critical |-> critical, warning |-> warning]

MonitorDefinitions ==
    << Monitor("[Drone Mission] High Telemetry Latency",
               "avg(last_5m):avg:drone_mission.telemetry.latency{*} > 500",
               <<"service:drone-mission-backend", "team:drone-ops", "severity:high">>,
               500, 300),
       Monitor("[Drone Mission] Command Timeout Rate High",
               "sum(last_10m):command_timeout / command_sent * 100 > 10",
               <<"service:drone-mission-backend", "team:drone-ops", "severity:critical">>,
               10, 5),
       Monitor("[Drone Mission] Multiple Low Battery Drones",
               "sum(last_5m):sum:drone_mission.drone.battery_low{*}.as_count() > 3",
               <<"service:drone-mission-backend", "team:drone-ops">>,
               3, 2),
       Monitor("[Drone Mission] API Error Rate High",
               "sum(last_5m):error_count / request_count * 100 > 5",
               <<"service:drone-mission-backend", "team:drone-ops">>,
               5, 2),
       Monitor("[Drone Mission] Mission Failure Rate High",
               "sum(last_1h):failed / (completed + failed) * 100 > 10",
               <<"service:drone-mission-backend", "team:drone-ops", "severity:critical">>,
               10, 5) >>

DashboardDefinition ==
    [title |-> "Drone Mission Operations",
     description |-> "Real-time monitoring of drone missions, fleet status, and system performance",
     widgets |-> << [id |-> 1, type |-> "query_value", title |-> "Active Missions"],
                    [id |-> 2, type |-> "timeseries", title |-> "Telemetry Messages/sec"],
                    [id |-> 3, type |-> "timeseries", title |-> "Telemetry Latency (p95/p50)"],
                    [id |-> 4, type |-> "toplist", title |-> "Fleet Status Distribution"],
                    [id |-> 5, type |-> "timeseries", title |-> "API Request Rate by Endpoint"],
                    [id |-> 6, type |-> "query_value", title |-> "Command Success Rate (%)"],
                    [id |-> 7, type |-> "heatmap", title |-> "Mission Duration by Site"] >>,
     layout_type |-> "ordered",
     is_read_only |-> FALSE]

-----------------------------------------------------------------------------
(* What requests.post does: an HTTP response, or a raised transport fault. *)
(* A response follows the API's contract: the body of a 200 response is    *)
(* JSON with an id field, of whatever value; the body of any other         *)
(* response is opaque text.                                                *)

Response(status_code, text, id) ==
    [kind |-> "response", status_code |-> status_code, text |-> text, id |-> id]

\* requests.post raises (timeout, DNS, TLS, connection refused)
Fault == [kind |-> "fault", status_code |-> 0, text |-> "", id |-> PyNone]

\* ids the JSON body of a 200 response may carry
OkIds == {PyInt(k) : k \in 0..MaxId} \cup {PyStr(""), PyStr("abc123")}

\* non-200 responses: a 2xx that is not 200 (its body carries an id), and a 403
Rejections ==
    {Response(201, "Created", PyInt(1)), Response(403, "Forbidden", PyNone)}

Responses == {Response(200, "OK", id) : id \in OkIds} \cup Rejections

Outcomes == Responses \cup {Fault}

\* the 200 responses among the POSTs issued so far
Accepted(w) ==
    SelectSeq(w, LAMBDA e : e.outcome.kind = "response" /\ e.outcome.status_code = 200)

\* a platform that gives each accepted POST an id no earlier asset has
PlatformOutcomes(w) ==
    {Response(200, "OK", PyInt(Len(Accepted(w)) + 1))} \cup Rejections \cup {Fault}

-----------------------------------------------------------------------------
(* Lines of standard output *)

CredentialError ==
    [kind |-> "error",
     text |-> "Please set DD_API_KEY and DD_APP_KEY environment variables"]

MonitorCreatedLine(name) == [kind |-> "monitor_created", name |-> name]

MonitorFailedLine(name, status_code) ==
    [kind |-> "monitor_failed", name |-> name, status_code |-> status_code]

DashboardCreatedLine == [kind |-> "dashboard_created"]

DashboardUrlLine(site, id) ==
    [kind |-> "dashboard_url", url |-> <<"https://app.", site.s, "/dashboard/", id>>]

DashboardFailedLine(status_code) ==
    [kind |-> "dashboard_failed", status_code |-> status_code]

BodyLine(text) == [kind |-> "body", text |-> text]

SummaryLine(count) == [kind |-> "summary", count |-> count]


-----------------------------------------------------------------------------
(* The functions of the scripts.  A call is the record of one call: the    *)
(* POST it issued, what came back, whether it raised, the value it         *)
(* returned and the lines it printed.                                      *)

Request(resource, json) ==
    [url |-> BASE_URL \o <<"/api/v1/", resource>>, headers |-> headers, json |-> json]

Call(request, outcome, raised, ret, out) ==
    [request |-> request, outcome |-> outcome, raised |-> raised, ret |-> ret,
     out |-> out]

\* a variant of create_monitor that takes every 2xx status for a success
create_monitor_any_2xx(monitor_config, o) ==
    LET request == Request("monitor", monitor_config) IN
    IF o.kind = "fault" THEN Call(request, o, TRUE, PyNone, <<>>)
    ELSE IF o.status_code \in 200..299
         THEN Call(request, o, FALSE, o.id,
                   <<MonitorCreatedLine(monitor_config.name)>>)
         ELSE Call(request, o, FALSE, PyNone,
                   <<MonitorFailedLine(monitor_config.name, o.status_code),
                     BodyLine(o.text)>>)

\* create_monitor(monitor_config), with o what requests.post does
create_monitor(monitor_config, o) ==
    LET request == Request("monitor", monitor_config) IN
    IF o.kind = "fault" THEN Call(request, o, TRUE, PyNone, <<>>)
    ELSE IF o.status_code = 200
         THEN Call(request, o, FALSE, o.id,
                   <<MonitorCreatedLine(monitor_config.name)>>)
         ELSE Call(request, o, FALSE, PyNone,
                   <<MonitorFailedLine(monitor_config.name, o.status_code),
                     BodyLine(o.text)>>)

\* a variant of create_dashboard that prints the viewer URL after a rejection too
create_dashboard_url_always(o) ==
    LET request == Request("dashboard", dashboard_config) IN
    IF o.kind = "fault" THEN Call(request, o, TRUE, PyNone, <<>>)
    ELSE IF o.status_code = 200
         THEN Call(request, o, FALSE, o.id,
                   <<DashboardCreatedLine, DashboardUrlLine(DD_SITE, o.id)>>)
         ELSE Call(request, o, FALSE, PyNone,
                   <<DashboardFailedLine(o.status_code), BodyLine(o.text),
                     DashboardUrlLine(DD_SITE, o.id)>>)

\* create_dashboard(), with o what requests.post does
create_dashboard(o) ==
    LET request == Request("dashboard", dashboard_config) IN
    IF o.kind = "fault" THEN Call(request, o, TRUE, PyNone, <<>>)
    ELSE IF o.status_code = 200
         THEN Call(request, o, FALSE, o.id,
                   <<DashboardCreatedLine, DashboardUrlLine(DD_SITE, o.id)>>)
         ELSE Call(request, o, FALSE, PyNone,
                   <<DashboardFailedLine(o.status_code), BodyLine(o.text)>>)

\* what create_all_monitors does with the call c of its k-th iteration: where
\* the process goes, the local list, the lines printed after the call and the
\* value returned
Step(to, k, list, out, ret) ==
    [pc |-> to, i |-> k, created_monitors |-> list, out |-> out, returned |-> ret]

\* a variant that leaves the loop at the first item that was not created
create_all_monitors_break(k, created, c) ==
    IF c.raised THEN Step("traceback", k, created, <<>>, {})
    ELSE LET list == IF Truthy(c.ret) THEN Append(created, c.ret) ELSE created IN
         IF k < Len(monitors) /\ Truthy(c.ret)
         THEN Step("create_all_monitors", k + 1, list, <<>>, {})
         ELSE Step("exit0", k + 1, list, <<SummaryLine(Len(list))>>, {list})

\* a variant that catches the transport fault and goes on with the next item
create_all_monitors_catch(k, created, c) ==
    LET list == IF Truthy(c.ret) THEN Append(created, c.ret) ELSE created IN
    IF k < Len(monitors)
    THEN Step("create_all_monitors", k + 1, list, <<>>, {})
    ELSE Step("exit0", k + 1, list, <<SummaryLine(Len(list))>>, {list})

\* a variant that prints the aggregate line inside the loop
create_all_monitors_print_in_loop(k, created, c) ==
    IF c.raised THEN Step("traceback", k, created, <<>>, {})
    ELSE LET list == IF Truthy(c.ret) THEN Append(created, c.ret) ELSE created IN
         IF k < Len(monitors)
         THEN Step("create_all_monitors", k + 1, list, <<SummaryLine(Len(list))>>, {})
         ELSE Step("exit0", k + 1, list, <<SummaryLine(Len(list))>>, {list})

create_all_monitors(k, created, c) ==
    IF c.raised THEN Step("traceback", k, created, <<>>, {})
    ELSE LET list == IF Truthy(c.ret) THEN Append(created, c.ret) ELSE created IN
         IF k < Len(monitors)
         THEN Step("create_all_monitors", k + 1, list, <<>>, {})
         ELSE Step("exit0", k + 1, list, <<SummaryLine(Len(list))>>, {list})

\* a variant of the credential check that asks for one credential only
CredentialsMissing_Both == ~Truthy(DD_API_KEY) /\ ~Truthy(DD_APP_KEY)

\* not DD_API_KEY or not DD_APP_KEY
CredentialsMissing == ~Truthy(DD_API_KEY) \/ ~Truthy(DD_APP_KEY)

-----------------------------------------------------------------------------
(* The state after the module-level code of a fresh process has run *)

Init ==
    /\ script \in {"monitors", "dashboard"}
    /\ DD_API_KEY \in KeyEntries
    /\ DD_APP_KEY \in KeyEntries
    /\ DD_SITE \in {getenv(e, DefaultSite) : e \in SiteEntries}
    /\ BASE_URL = MakeBaseUrl(DD_SITE)
    /\ headers = MakeHeaders(DD_API_KEY, DD_APP_KEY)
    /\ monitors = MonitorDefinitions
    /\ dashboard_config = DashboardDefinition
    /\ pc = "main"
    /\ i = 1
    /\ created_monitors = <<>>
    /\ returned = {}
    /\ dashboard_id = {}
    /\ printed = <<>>
    /\ calls = <<>>
    /\ run = 1
    /\ wire = <<>>

\* if __name__ == "__main__": the credential check, then the call
Main ==
    /\ pc = "main"
    /\ IF CredentialsMissing
       THEN /\ printed' = Append(printed, CredentialError)
            /\ pc' = "exit1"
       ELSE /\ printed' = printed
            /\ pc' = IF script = "monitors" THEN "create_all_monitors"
                     ELSE "create_dashboard"
    /\ UNCHANGED <<script, config, i, created_monitors, returned, dashboard_id,
                   calls, run, wire>>

\* a variant of the iteration that blanks the API key of the shared headers
\* once the request is sent
CreateMonitor_ScrubsKey(o) ==
    /\ pc = "create_all_monitors"
    /\ i \in 1..Len(monitors)
    /\ LET c == create_monitor(monitors[i], o)
           step == create_all_monitors(i, created_monitors, c)
       IN /\ calls' = Append(calls, c)
          /\ wire' = Append(wire, [run |-> run, request |-> c.request, outcome |-> o])
          /\ printed' = printed \o c.out \o step.out
          /\ pc' = step.pc
          /\ i' = step.i
          /\ created_monitors' = step.created_monitors
          /\ returned' = step.returned
    /\ headers' = [headers EXCEPT !.DDAPIKEY = PyNone]
    /\ UNCHANGED <<script, DD_API_KEY, DD_APP_KEY, DD_SITE, BASE_URL, monitors,
                   dashboard_config, dashboard_id, run>>

\* one iteration of the loop of create_all_monitors; the last one goes on to
\* the aggregate line and the return
CreateMonitor(o) ==
    /\ pc = "create_all_monitors"
    /\ i \in 1..Len(monitors)
    /\ LET c == create_monitor(monitors[i], o)
           step == create_all_monitors(i, created_monitors, c)
       IN /\ calls' = Append(calls, c)
          /\ wire' = Append(wire, [run |-> run, request |-> c.request, outcome |-> o])
          /\ printed' = printed \o c.out \o step.out
          /\ pc' = step.pc
          /\ i' = step.i
          /\ created_monitors' = step.created_monitors
          /\ returned' = step.returned
    /\ UNCHANGED <<script, config, dashboard_id, run>>

\* a variant of the dashboard run that looks for a dashboard accepted earlier
\* and posts only when there is none
CreateDashboard_Upsert(o) ==
    /\ pc = "create_dashboard"
    /\ IF Accepted(wire) # <<>>
       THEN /\ pc' = "exit0"
            /\ dashboard_id' = {Accepted(wire)[1].outcome.id}
            /\ UNCHANGED <<calls, wire, printed>>
       ELSE LET c == create_dashboard(o)
            IN /\ calls' = Append(calls, c)
               /\ wire' = Append(wire, [run |-> run, request |-> c.request, outcome |-> o])
               /\ printed' = printed \o c.out
               /\ pc' = IF c.raised THEN "traceback" ELSE "exit0"
               /\ dashboard_id' = IF c.raised THEN {} ELSE {c.ret}
    /\ UNCHANGED <<script, config, i, created_monitors, returned, run>>

\* dashboard_id = create_dashboard(), the last statement of the script
CreateDashboard(o) ==
    /\ pc = "create_dashboard"
    /\ LET c == create_dashboard(o)
       IN /\ calls' = Append(calls, c)
          /\ wire' = Append(wire, [run |-> run, request |-> c.request, outcome |-> o])
          /\ printed' = printed \o c.out
          /\ pc' = IF c.raised THEN "traceback" ELSE "exit0"
          /\ dashboard_id' = IF c.raised THEN {} ELSE {c.ret}
    /\ UNCHANGED <<script, config, i, created_monitors, returned, run>>

Terminated == pc \in {"exit0", "exit1", "traceback"}

\* the exit status of a process that has ended: exit(1) after the credential
\* error, 1 after an uncaught exception, 0 at the end of the script
ExitStatus == IF pc = "exit0" THEN 0 ELSE 1

\* the script is started again in the same environment: a new process, whose
\* module-level code runs afresh
Rerun ==
    /\ Terminated
    /\ run < MaxRuns
    /\ run' = run + 1
    /\ DD_SITE' = DD_SITE
    /\ DD_API_KEY' = DD_API_KEY
    /\ DD_APP_KEY' = DD_APP_KEY
    /\ BASE_URL' = MakeBaseUrl(DD_SITE')
    /\ headers' = MakeHeaders(DD_API_KEY', DD_APP_KEY')
    /\ monitors' = MonitorDefinitions
    /\ dashboard_config' = DashboardDefinition
    /\ pc' = "main"
    /\ i' = 1
    /\ created_monitors' = <<>>
    /\ returned' = {}
    /\ dashboard_id' = {}
    /\ printed' = <<>>
    /\ calls' = <<>>
    /\ UNCHANGED <<script, wire>>

\* one run of either script, against any HTTP server
Next ==
    \/ Main
    \/ \E o \in Outcomes : CreateMonitor(o)
    \/ \E o \in Outcomes : CreateDashboard(o)

Spec == Init /\ [][Next]_vars

\* the process runs until it ends: every requests.post call comes back, with a
\* response or with a raised fault (no call hangs for ever)
LiveSpec == Spec /\ WF_vars(Next)

\* the dashboard script run up to MaxRuns times against a platform that gives
\* every accepted POST a fresh id
InitDashboard == Init /\ script = "dashboard"

NextDashboard ==
    \/ Main
    \/ \E o \in PlatformOutcomes(wire) : CreateDashboard(o)
    \/ Rerun

RerunSpec == InitDashboard /\ [][NextDashboard]_vars


-----------------------------------------------------------------------------
(* Readings of the state used by the properties *)

Lines(kind) == SelectSeq(printed, LAMBDA l : l.kind = kind)

IsOk200(c) == c.outcome.kind = "response" /\ c.outcome.status_code = 200

IsRejected(c) == c.outcome.kind = "response" /\ c.outcome.status_code # 200

\* the ids of the 200 responses, in the order of the calls
Ids200 ==
    LET ok == SelectSeq(calls, IsOk200) IN [k \in 1..Len(ok) |-> ok[k].outcome.id]

AnyRaised == \E k \in 1..Len(calls) : calls[k].raised

RECURSIVE Output(_)
\* the lines the calls cs printed, in order
Output(cs) == IF cs = <<>> THEN <<>> ELSE cs[1].out \o Output(Tail(cs))

CredentialAbsent == DD_API_KEY = PyNone \/ DD_APP_KEY = PyNone

MonitorRun == script = "monitors" /\ ~CredentialsMissing

DashboardRun == script = "dashboard" /\ ~CredentialsMissing


-----------------------------------------------------------------------------
(* C1: in every run of either script in which DD_API_KEY or DD_APP_KEY is  *)
(* absent, no POST is ever issued; the check is the first step, it prints  *)
(* the fixed credential error and nothing else, and the process ends with  *)
(* exit status 1.                                                          *)
C1_NoPostWithoutCredentials ==
    CredentialAbsent =>
        /\ calls = <<>>
        /\ wire = <<>>
        /\ pc \in {"main", "exit1"}
        /\ pc = "main" => printed = <<>> /\ ENABLED Main
        /\ pc = "exit1" => printed = <<CredentialError>> /\ ExitStatus = 1

\* the API key is absent, the application key is set, and the run has ended
C1_Witness ==
    /\ DD_API_KEY = PyNone
    /\ Truthy(DD_APP_KEY)
    /\ pc = "exit1"
    /\ printed = <<CredentialError>>

(* C2: when create_all_monitors has returned and K of its submissions got  *)
(* HTTP 200, whatever id the 200 responses carry, the aggregate line shows *)
(* K and the returned sequence is the ids of the K successful items in     *)
(* input order.                                                            *)
C2_CountIsNumberOf200 ==
    (script = "monitors" /\ pc = "exit0") =>
        /\ Lines("summary") = <<SummaryLine(Len(Ids200))>>
        /\ returned = {Ids200}

C4_Non200IsRejection ==
    /\ \A k \in 1..Len(calls) :
          IsRejected(calls[k]) =>
              /\ calls[k].ret = PyNone
              /\ ~calls[k].raised
              /\ Len(calls[k].out) = 2
              /\ calls[k].out[1].kind \in {"monitor_failed", "dashboard_failed"}
              /\ calls[k].out[1].status_code = calls[k].outcome.status_code
              /\ calls[k].out[2] = BodyLine(calls[k].outcome.text)
    /\ printed = Output(calls) \o Lines("summary") \o Lines("error")
    /\ script = "monitors" => created_monitors = SelectSeq(Ids200, Truthy)
    /\ \A v \in dashboard_id : v # PyNone => Ids200 = <<v>>

\* a monitor run that has ended with a 201 and a 403 among its responses
C4_Witness ==
    /\ script = "monitors"
    /\ pc = "exit0"
    /\ \E k \in 1..Len(calls) : calls[k].outcome = Response(201, "Created", PyInt(1))
    /\ \E k \in 1..Len(calls) : calls[k].outcome = Response(403, "Forbidden", PyNone)

C6_FaultEndsTheRun ==
    /\ \A k \in 1..Len(calls) :
          calls[k].raised <=> (calls[k].outcome = Fault)
    /\ \A k \in 1..Len(calls) :
          calls[k].raised =>
              /\ k = Len(calls)
              /\ pc = "traceback"
              /\ ExitStatus # 0
              /\ Lines("summary") = <<>>
              /\ returned = {}
              /\ dashboard_id = {}
              /\ calls[k].out = <<>>
    /\ pc = "traceback" => AnyRaised

\* a monitor run whose second submission raised, after a rejected first one
C6_Witness ==
    /\ script = "monitors"
    /\ pc = "traceback"
    /\ Len(calls) = 2
    /\ IsRejected(calls[1])
    /\ calls[2].raised

C7_End ==
    /\ pc = "exit0"
    /\ ExitStatus = 0
    /\ Len(calls) = Len(MonitorDefinitions)
    /\ Lines("summary") = <<SummaryLine(Len(created_monitors))>>
    /\ printed[Len(printed)].kind = "summary"
    /\ returned = {created_monitors}

C8_RerunCreatesDuplicate ==
    ~CredentialsMissing =>
        /\ Len(wire) = IF Terminated THEN run ELSE run - 1
        /\ \A k \in 1..Len(wire) :
              /\ wire[k].run = k
              /\ wire[k].request.url = <<"https://api.", DD_SITE.s, "/api/v1/", "dashboard">>
              /\ wire[k].request.json = DashboardDefinition
        /\ \A a, b \in 1..Len(Accepted(wire)) :
              a # b => Accepted(wire)[a].outcome.id # Accepted(wire)[b].outcome.id

\* the second run has ended and both runs were accepted: two assets, two ids
C8_Witness ==
    /\ ~CredentialsMissing
    /\ run = 2
    /\ pc = "exit0"
    /\ Len(Accepted(wire)) = 2
    /\ wire[1].outcome.id = PyInt(1)
    /\ dashboard_id = {PyInt(2)}

(* C9: when create_all_monitors has returned, the number of per-item       *)
(* success lines equals the count of the aggregate line and the length of  *)
(* the returned sequence, and the number of per-item failure lines is      *)
(* Len(monitors) minus that count.                                         *)
C9_ReportConsistent ==
    (script = "monitors" /\ pc = "exit0") =>
        /\ Lines("summary") = <<SummaryLine(Len(Lines("monitor_created")))>>
        /\ \A r \in returned : Len(r) = Len(Lines("monitor_created"))
        /\ Len(Lines("monitor_failed")) = Len(monitors) - Len(created_monitors)

(* C10: the shared configuration is what the module-level code computed:   *)
(* base URL, the three headers and the static definitions are the same in  *)
(* every state, so every POST carries these headers and base URL, and the  *)
(* k-th POST of a monitor run carries the k-th static definition.          *)
C10_ConfigurationUnchanged ==
    /\ BASE_URL = MakeBaseUrl(DD_SITE)
    /\ headers = MakeHeaders(DD_API_KEY, DD_APP_KEY)
    /\ monitors = MonitorDefinitions
    /\ dashboard_config = DashboardDefinition
    /\ \A k \in 1..Len(calls) :
          /\ calls[k].request.headers = MakeHeaders(DD_API_KEY, DD_APP_KEY)
          /\ SubSeq(calls[k].request.url, 1, 2) = MakeBaseUrl(DD_SITE)
          /\ calls[k].request.json =
                 IF script = "monitors" THEN MonitorDefinitions[k] ELSE DashboardDefinition

\* a monitor run that has ended after a rejection and then a success
C10_Witness ==
    /\ script = "monitors"
    /\ pc = "exit0"
    /\ Len(calls) = 5
    /\ IsRejected(calls[1])
    /\ IsOk200(calls[2])

=============================================================================
